---- MODULE Spec2Model ----
(***************************************************************************)
(* Databricks cost estimator (databricks_cost_app.py): the instance price  *)
(* resolver, the cost calculator, the 12-month projection and the estimate *)
(* flow of main().                                                         *)
(*                                                                         *)
(* Numbers.  The program computes with Python floats; the model computes   *)
(* with exact decimal fixed point:                                         *)
(*   hourly prices              in units of 10^-4 dollars (0.192 -> 1920)  *)
(*   runtime hours per run      in units of 10^-1 hours   (2.5   -> 25)    *)
(*   DBU per node per hour      in units of 10^-2 DBU     (2.75  -> 275)   *)
(*   DBU rates                  in units of 10^-2 dollars (0.55  -> 55)    *)
(*   instance_cost, dbu_cost    in units of 10^-5 dollars                  *)
(*   monthly totals             in units of 10^-2 dollars (cents)          *)
(* round(x, n) rounds the float to the nearest n-decimal value.  The exact  *)
(* decimal value and the float differ by the float's representation error, *)
(* which is far below the unit 10^-5 and so decides the result only when   *)
(* the exact value lies midway between two neighbours: there the float is  *)
(* on either side, and the model takes both neighbours as outcomes.        *)
(***************************************************************************)
EXTENDS Integers, Sequences, FiniteSets, TLC

VARIABLES
    AWS_INSTANCE_TYPES,  \* module dict, line 34: instance type -> price
    GCP_INSTANCE_TYPES,  \* module dict, line 31
    last,                \* the most recent direct resolver call
    prev,                \* what the call before it returned, when it had the
                         \* same arguments
    ui,                  \* the widget values of the current script run
    out,                 \* what the current script run of main() rendered
    gcp_call,            \* the most recent direct get_gcp_instance_price call
    inputs,              \* arguments of the most recent calculator call
    total_cost,          \* its return value
    before,              \* arguments and return value of the call before it
    months,              \* plot_monthly_costs: the x series
    costs                \* plot_monthly_costs: the y series

vars == <<AWS_INSTANCE_TYPES, GCP_INSTANCE_TYPES, last, prev, ui, out,
          gcp_call, inputs, total_cost, before, months, costs>>

-----------------------------------------------------------------------------
(* Python values *)

\* Python's None and a Python float, as one shape so that they compare.
None == [ok |-> FALSE, v |-> 0]

Float(n) == [ok |-> TRUE, v |-> n]

\* `is not None` in the place of the truth test
truthy_not_none(x) == x.ok

\* bool(x) as `if instance_price:` takes it: None and 0.0 are false.
truthy(x) == x.ok /\ x.v # 0

\* dict.get(key, default)
dict_get(d, key, default) == IF key \in DOMAIN d THEN d[key] ELSE default

\* round() on the float whose exact value is num / den (num >= 0): the set
\* of results it can give, the nearest integer or, midway, either neighbour.
round(num, den) ==
    LET q == num \div den
        r == num % den
    IN  IF 2 * r < den THEN {q}
        ELSE IF 2 * r > den THEN {q + 1}
        ELSE {q, q + 1}

Digits == <<"0", "1", "2", "3", "4", "5", "6", "7", "8", "9">>

DigitChars == {Digits[i] : i \in 1..Len(Digits)}

DigitVal(c) == (CHOOSE i \in 1..Len(Digits) : Digits[i] = c) - 1

RECURSIVE Pow10(_)
Pow10(n) == IF n <= 0 THEN 1 ELSE 10 * Pow10(n - 1)

RECURSIVE IntPart(_)
IntPart(s) == IF s = <<>> THEN 0
              ELSE 10 * IntPart(SubSeq(s, 1, Len(s) - 1)) + DigitVal(s[Len(s)])

RECURSIVE FracPart(_, _)
\* the digits after the point, in units of 10^-4 (a digit past the fourth
\* place is below the unit)
FracPart(s, pos) == IF s = <<>> \/ pos > 4 THEN 0
                    ELSE DigitVal(s[1]) * Pow10(4 - pos)
                         + FracPart(Tail(s), pos + 1)

\* float(s) for a string s given as its characters, over the alphabet of
\* digits, "." and other characters: digits with at most one point and at
\* least one digit parse, anything else raises ValueError (None here stands
\* for the raise).  The strings of the model carry at most four significant
\* decimals, so the value in units of 10^-4 is exact.
float(s) ==
    LET dots == {i \in 1..Len(s) : s[i] = "."}
        bad  == {i \in 1..Len(s) : s[i] \notin DigitChars \cup {"."}}
    IN  IF bad # {} \/ Cardinality(dots) > 1 \/ Len(s) = Cardinality(dots)
        THEN None
        ELSE IF dots = {}
        THEN Float(10000 * IntPart(s))
        ELSE LET d == CHOOSE i \in dots : TRUE
             IN  Float(10000 * IntPart(SubSeq(s, 1, d - 1))
                       + FracPart(SubSeq(s, d + 1, Len(s)), 1))

-----------------------------------------------------------------------------
(* Module data, lines 9-36 *)

COMPUTE_TYPES == <<"Jobs Compute", "All-Purpose Compute", "SQL Compute",
                   "Photon Compute">>

PLANS == <<"Standard", "Premium", "Enterprise">>

Rates(jobs, all_purpose, sql, photon) ==
    [c \in {COMPUTE_TYPES[i] : i \in 1..4} |->
        IF c = "Jobs Compute" THEN jobs
        ELSE IF c = "All-Purpose Compute" THEN all_purpose
        ELSE IF c = "SQL Compute" THEN sql ELSE photon]

DBU_PRICING_BY_PLAN ==
    [Standard   |-> Rates(40, 55, 22, 30),
     Premium    |-> Rates(50, 65, 30, 40),
     Enterprise |-> Rates(55, 75, 35, 40)]

GCP_INSTANCE_TYPES_0 == [x \in {"n2-standard-2", "n1-standard-4"} |->
                            IF x = "n2-standard-2" THEN 1090 ELSE 1500]

\* list(GCP_INSTANCE_TYPES.keys())
GCP_INSTANCE_KEYS == <<"n2-standard-2", "n1-standard-4">>

GCP_REGIONS == <<"us-central1", "us-east4">>

AWS_INSTANCE_TYPES_0 == [x \in {"m5.xlarge", "r5.large", "t3.medium"} |->
                            IF x = "m5.xlarge" THEN 1920
                            ELSE IF x = "r5.large" THEN 1260 ELSE 416]

\* list(AWS_INSTANCE_TYPES.keys())
AWS_INSTANCE_KEYS == <<"m5.xlarge", "r5.large", "t3.medium">>

\* AWS_SPOT_DISCOUNT = 0.3, in tenths
AWS_SPOT_DISCOUNT == 3

AWS_REGIONS == <<"us-east-1", "us-west-2">>

\* .get(instance_type, 0.1): the default of line 41, in units of 10^-4
AWS_DEFAULT_PRICE == 1000

-----------------------------------------------------------------------------
(* The pricing service, as one call of get_aws_instance_price meets it.    *)
(* kind "client_raises": boto3.client (line 42) raises, nothing is asked;  *)
(* kind "request_raises": client.get_products (line 43) raises;            *)
(* kind "response": get_products returns `response`.  A Python dict is a   *)
(* record; a dict of which only list(d.values()) is read is the sequence   *)
(* of its values; a JSON text is [valid, value]: whether json.loads parses *)
(* it and the value it parses to.                                          *)

Usd(chars) == [pricePerUnit |-> [USD |-> chars]]

Term(dims) == [priceDimensions |-> dims]

Product(terms) == [valid |-> TRUE, value |-> [terms |-> [OnDemand |-> terms]]]

Answer(r) == [kind |-> "response", response |-> r]

P1920 == <<"0", ".", "1", "9", "2", "0", "0", "0", "0", "0", "0", "0">>

P0416 == <<"0", ".", "0", "4", "1", "6", "0", "0", "0", "0", "0", "0">>

PZero == <<"0", ".", "0", "0", "0", "0", "0", "0", "0", "0", "0", "0">>

PText == <<"N", "/", "A">>

Remotes ==
    { [kind |-> "client_raises", response |-> [FormatVersion |-> "none"]],
      [kind |-> "request_raises", response |-> [FormatVersion |-> "none"]],
      Answer([FormatVersion |-> "aws_v1"]),                   \* no PriceList
      Answer([PriceList |-> <<>>]),                            \* empty list
      Answer([PriceList |-> <<[valid |-> FALSE,
                               value |-> [serviceCode |-> "AmazonEC2"]]>>]),
      Answer([PriceList |-> <<[valid |-> TRUE,
                               value |-> [serviceCode |-> "AmazonEC2"]]>>]),
      Answer([PriceList |-> <<[valid |-> TRUE,
                               value |-> [terms |-> [Reserved |-> <<>>]]]>>]),
      Answer([PriceList |-> <<Product(<<>>)>>]),
      Answer([PriceList |-> <<Product(<<[sku |-> "JRTCKXETXF"]>>)>>]),
      Answer([PriceList |-> <<Product(<<Term(<<>>)>>)>>]),
      Answer([PriceList |-> <<Product(<<Term(<<[unit |-> "Hrs"]>>)>>)>>]),
      Answer([PriceList |-> <<Product(<<Term(<<[pricePerUnit |->
                                                [CNY |-> P1920]]>>)>>)>>]),
      Answer([PriceList |-> <<Product(<<Term(<<Usd(PText)>>)>>)>>]),
      Answer([PriceList |-> <<Product(<<Term(<<Usd(P1920)>>)>>)>>]),
      Answer([PriceList |-> <<Product(<<Term(<<Usd(PZero)>>)>>)>>]),
      \* several products, terms and dimensions: the first of each is read
      Answer([PriceList |-> <<Product(<<Term(<<Usd(P0416), Usd(P1920)>>),
                                        Term(<<Usd(PZero)>>)>>),
                              Product(<<Term(<<Usd(PText)>>)>>)>>]) }

-----------------------------------------------------------------------------
(* Instance price resolver, lines 38-70.  Each resolver operator yields    *)
(* the set of its outcomes [price, requests]: the value returned and the   *)
(* number of client.get_products calls made.                               *)

\* lines 55-58 on a returned response; any KeyError, IndexError,
\* JSONDecodeError or ValueError on the way is the None of line 60
extract_price(response) ==
    IF "PriceList" \notin DOMAIN response THEN None
    ELSE IF Len(response.PriceList) = 0 THEN None
    ELSE LET doc == response.PriceList[1]
         IN  IF ~doc.valid THEN None
             ELSE LET product == doc.value
                  IN  IF "terms" \notin DOMAIN product THEN None
                      ELSE IF "OnDemand" \notin DOMAIN product.terms THEN None
                      ELSE LET on_demand == product.terms.OnDemand
                           IN  IF Len(on_demand) = 0 THEN None
                               ELSE IF "priceDimensions" \notin DOMAIN on_demand[1]
                               THEN None
                               ELSE LET price_dimensions ==
                                            on_demand[1].priceDimensions
                                    IN  IF Len(price_dimensions) = 0 THEN None
                                        ELSE IF "pricePerUnit" \notin
                                                  DOMAIN price_dimensions[1]
                                        THEN None
                                        ELSE IF "USD" \notin DOMAIN
                                                  price_dimensions[1].pricePerUnit
                                        THEN None
                                        ELSE float(price_dimensions[1].pricePerUnit.USD)

\* the spot price taken as the discount's share of the reference price
\* instead of the rest
get_aws_instance_price_discount_share(instance_type, region, spot, remote) ==
    IF spot
    THEN {[price |-> Float(p), requests |-> 0] :
            p \in round(dict_get(AWS_INSTANCE_TYPES, instance_type,
                                 AWS_DEFAULT_PRICE) * AWS_SPOT_DISCOUNT, 10)}
    ELSE IF remote.kind = "client_raises"
    THEN {[price |-> None, requests |-> 0]}
    ELSE IF remote.kind = "request_raises"
    THEN {[price |-> None, requests |-> 1]}
    ELSE {[price |-> extract_price(remote.response), requests |-> 1]}

\* a failed remote query answered from the static table instead of None
get_aws_instance_price_static_fallback(instance_type, region, spot, remote) ==
    LET static == Float(dict_get(AWS_INSTANCE_TYPES, instance_type,
                                 AWS_DEFAULT_PRICE))
    IN  IF spot
        THEN {[price |-> Float(p), requests |-> 0] :
                p \in round(static.v * (10 - AWS_SPOT_DISCOUNT), 10)}
        ELSE IF remote.kind = "client_raises"
        THEN {[price |-> static, requests |-> 0]}
        ELSE IF remote.kind = "request_raises"
        THEN {[price |-> static, requests |-> 1]}
        ELSE IF extract_price(remote.response) = None
        THEN {[price |-> static, requests |-> 1]}
        ELSE {[price |-> extract_price(remote.response), requests |-> 1]}

\* a price once resolved kept for the next call with the same arguments
get_aws_instance_price_memoized(instance_type, region, spot, remote) ==
    IF spot
    THEN {[price |-> Float(p), requests |-> 0] :
            p \in round(dict_get(AWS_INSTANCE_TYPES, instance_type,
                                 AWS_DEFAULT_PRICE) * (10 - AWS_SPOT_DISCOUNT),
                        10)}
    ELSE IF /\ last.called /\ last.cloud_provider = "AWS" /\ ~last.spot
            /\ last.instance_type = instance_type /\ last.region = region
            /\ last.price.ok
    THEN {[price |-> last.price, requests |-> 0]}
    ELSE IF remote.kind = "client_raises"
    THEN {[price |-> None, requests |-> 0]}
    ELSE IF remote.kind = "request_raises"
    THEN {[price |-> None, requests |-> 1]}
    ELSE {[price |-> extract_price(remote.response), requests |-> 1]}

get_aws_instance_price(instance_type, region, spot, remote) ==
    IF spot
    THEN {[price |-> Float(p), requests |-> 0] :
            p \in round(dict_get(AWS_INSTANCE_TYPES, instance_type,
                                 AWS_DEFAULT_PRICE) * (10 - AWS_SPOT_DISCOUNT),
                        10)}
    ELSE IF remote.kind = "client_raises"
    THEN {[price |-> None, requests |-> 0]}
    ELSE IF remote.kind = "request_raises"
    THEN {[price |-> None, requests |-> 1]}
    ELSE {[price |-> extract_price(remote.response), requests |-> 1]}

\* .get(instance_type, 0.1), as line 41 reads the AWS table
get_gcp_instance_price_default(instance_type) ==
    Float(dict_get(GCP_INSTANCE_TYPES, instance_type, AWS_DEFAULT_PRICE))

get_gcp_instance_price(instance_type) ==
    IF instance_type \in DOMAIN GCP_INSTANCE_TYPES
    THEN Float(GCP_INSTANCE_TYPES[instance_type])
    ELSE None

\* the spot flag honoured for GCP as it is for AWS
fetch_instance_price_gcp_spot(cloud_provider, instance_type, region, spot, remote) ==
    IF cloud_provider = "AWS"
    THEN get_aws_instance_price(instance_type, region, spot, remote)
    ELSE IF cloud_provider = "GCP"
    THEN LET g == get_gcp_instance_price(instance_type)
         IN  IF spot /\ g.ok
             THEN {[price |-> Float(p), requests |-> 0] :
                     p \in round(g.v * (10 - AWS_SPOT_DISCOUNT), 10)}
             ELSE {[price |-> g, requests |-> 0]}
    ELSE {[price |-> None, requests |-> 0]}

fetch_instance_price(cloud_provider, instance_type, region, spot, remote) ==
    IF cloud_provider = "AWS"
    THEN get_aws_instance_price(instance_type, region, spot, remote)
    ELSE IF cloud_provider = "GCP"
    THEN {[price |-> get_gcp_instance_price(instance_type), requests |-> 0]}
    ELSE {[price |-> None, requests |-> 0]}

-----------------------------------------------------------------------------
(* Cost calculator and projection, lines 72-86 *)

\* instance_cost and dbu_cost are in units of 10^-5 dollars; round(..., 2)
\* brings their sum to cents.  Yields the set of values the call can return.
\* each term rounded to cents before the sum
calculate_databricks_cost_round_each(instance_price, num_nodes, runtime_hours, dbu_per_hour, dbu_cost_per_dbu, runs_per_day, days_per_month) ==
    LET instance_cost == instance_price * num_nodes * runtime_hours
                         * runs_per_day * days_per_month
        dbu_cost == dbu_per_hour * num_nodes * dbu_cost_per_dbu * runtime_hours
                    * runs_per_day * days_per_month
    IN  {a + b : a \in round(instance_cost, 1000), b \in round(dbu_cost, 1000)}

\* a volume discount: half price from three nodes on
calculate_databricks_cost_volume_discount(instance_price, num_nodes, runtime_hours, dbu_per_hour, dbu_cost_per_dbu, runs_per_day, days_per_month) ==
    LET instance_cost == instance_price * num_nodes * runtime_hours
                         * runs_per_day * days_per_month
        dbu_cost == dbu_per_hour * num_nodes * dbu_cost_per_dbu * runtime_hours
                    * runs_per_day * days_per_month
    IN  IF num_nodes >= 3
        THEN round(instance_cost + dbu_cost, 2000)
        ELSE round(instance_cost + dbu_cost, 1000)

calculate_databricks_cost(instance_price, num_nodes, runtime_hours, dbu_per_hour, dbu_cost_per_dbu, runs_per_day, days_per_month) ==
    LET instance_cost == instance_price * num_nodes * runtime_hours
                         * runs_per_day * days_per_month
        dbu_cost == dbu_per_hour * num_nodes * dbu_cost_per_dbu * runtime_hours
                    * runs_per_day * days_per_month
    IN  round(instance_cost + dbu_cost, 1000)

\* range(12) for range(1, 13)
plot_monthly_costs_from_zero(cost) ==
    LET ms == [i \in 1..12 |-> i - 1]
    IN  [months |-> ms, costs |-> [i \in 1..12 |-> cost * ms[i]]]

\* lines 78-79: the two series handed to ax.plot
plot_monthly_costs(cost) ==
    LET ms == [i \in 1..12 |-> i]
    IN  [months |-> ms, costs |-> [i \in 1..12 |-> cost * ms[i]]]

-----------------------------------------------------------------------------
(* Callers of the resolver *)

CloudProviders == {"AWS", "GCP", "Azure"}

\* every identifier of either table, and one that is in neither
InstanceIds == DOMAIN AWS_INSTANCE_TYPES_0 \cup DOMAIN GCP_INSTANCE_TYPES_0
               \cup {"c5.unknown"}

CallRegions == {AWS_REGIONS[1], GCP_REGIONS[1]}

\* the service outcome of a call that does not reach lines 42-43
NoRemote == [kind |-> "not_contacted", response |-> [FormatVersion |-> "none"]]

RemotesFor(cloud_provider, spot) ==
    IF cloud_provider = "AWS" /\ ~spot THEN Remotes ELSE {NoRemote}

NoCall == [called |-> FALSE, cloud_provider |-> "AWS", instance_type |-> "m5.xlarge",
           region |-> "us-east-1", spot |-> FALSE, remote |-> NoRemote,
           price |-> None, requests |-> 0]

NoPrev == [repeat |-> FALSE, price |-> None]

NoRun == [clicked |-> FALSE, instance_price |-> None, requests |-> 0,
          calc_calls |-> <<>>, success |-> <<>>, breakdown |-> <<>>,
          months |-> <<>>, costs |-> <<>>, error |-> <<>>]

NoGcpCall == [called |-> FALSE, instance_type |-> "n2-standard-2", price |-> None]

NoInputs == [instance_price |-> 0, num_nodes |-> 1, runtime_hours |-> 1,
             dbu_per_hour |-> 10, dbu_cost_per_dbu |-> 0, runs_per_day |-> 1,
             days_per_month |-> 1]

NoBefore == [called |-> FALSE, inputs |-> NoInputs, total_cost |-> 0]

\* the widget defaults of lines 91-109
DefaultUi == [cloud_provider |-> "AWS", instance_type |-> "m5.xlarge",
              region |-> "us-east-1", spot |-> FALSE, plan |-> "Standard",
              compute_type |-> "Jobs Compute", num_nodes |-> 3, runtime_hours |-> 25,
              dbu_per_hour |-> 275, runs_per_day |-> 1, days_per_month |-> 1]

\* the state after the module is imported
Loaded ==
    /\ AWS_INSTANCE_TYPES = AWS_INSTANCE_TYPES_0
    /\ GCP_INSTANCE_TYPES = GCP_INSTANCE_TYPES_0
    /\ last = NoCall
    /\ prev = NoPrev
    /\ ui = DefaultUi
    /\ out = NoRun
    /\ gcp_call = NoGcpCall
    /\ inputs = NoInputs
    /\ total_cost = 0
    /\ before = NoBefore
    /\ months = <<>>
    /\ costs = <<>>

\* a caller invokes fetch_instance_price(cloud_provider, instance_type,
\* region, spot) while the pricing service is disposed as `remote`
CallFetchInstancePrice ==
    \E cloud_provider \in CloudProviders, instance_type \in InstanceIds,
       region \in CallRegions, spot \in BOOLEAN :
      \E remote \in RemotesFor(cloud_provider, spot) :
      \E r \in fetch_instance_price(cloud_provider, instance_type, region,
                                      spot, remote) :
            /\ last' = [called |-> TRUE, cloud_provider |-> cloud_provider,
                        instance_type |-> instance_type, region |-> region,
                        spot |-> spot, remote |-> remote, price |-> r.price,
                        requests |-> r.requests]
            /\ prev' = IF /\ last.called
                          /\ last.cloud_provider = cloud_provider
                          /\ last.instance_type = instance_type
                          /\ last.region = region
                          /\ last.spot = spot
                       THEN [repeat |-> TRUE, price |-> last.price]
                       ELSE NoPrev
            /\ UNCHANGED <<AWS_INSTANCE_TYPES, GCP_INSTANCE_TYPES, ui, out,
                           gcp_call, inputs, total_cost, before, months, costs>>

ResolverNext == CallFetchInstancePrice

ResolverSpec == Loaded /\ [][ResolverNext]_vars

-----------------------------------------------------------------------------
(* Properties of the resolver, under ResolverSpec *)

AwsSpotCall == last.called /\ last.cloud_provider = "AWS" /\ last.spot

AwsRemoteCall == last.called /\ last.cloud_provider = "AWS" /\ ~last.spot

GcpCall == last.called /\ last.cloud_provider = "GCP"

\* C1: an AWS call with the spot flag set, for an instance type of the AWS
\* table and any region, returns the 4-decimal value nearest to 0.7 times
\* the table price (0.1344 for m5.xlarge) and issues no remote request.
C1_SpotPrice ==
    (AwsSpotCall /\ last.instance_type \in DOMAIN AWS_INSTANCE_TYPES_0) =>
        /\ last.price.ok
        /\ 10 * last.price.v - 7 * AWS_INSTANCE_TYPES_0[last.instance_type]
               \in -5..5
        /\ last.instance_type = "m5.xlarge" => last.price.v = 1344
        /\ last.requests = 0

C1_Witness ==
    /\ AwsSpotCall
    /\ last.instance_type = "m5.xlarge"
    /\ last.region = GCP_REGIONS[1]
    /\ last.price = Float(1344)

\* C2: a GCP call for an instance type of the GCP table returns exactly the
\* table price, whatever the spot flag and the region, and issues no remote
\* request.
C2_GcpPrice ==
    (GcpCall /\ last.instance_type \in DOMAIN GCP_INSTANCE_TYPES_0) =>
        /\ last.price = Float(GCP_INSTANCE_TYPES_0[last.instance_type])
        /\ last.requests = 0

C2_Witness ==
    /\ GcpCall
    /\ last.spot
    /\ last.region = AWS_REGIONS[1]
    /\ last.instance_type = "n1-standard-4"
    /\ last.price = Float(1500)

\* C3: a call resolved from static data (GCP, or AWS with the spot flag) for
\* an instance type that is not in the provider's table returns None.
C3_UnknownIsUnavailable ==
    /\ (GcpCall /\ last.instance_type \notin DOMAIN GCP_INSTANCE_TYPES_0)
          => last.price = None
    /\ (AwsSpotCall /\ last.instance_type \notin DOMAIN AWS_INSTANCE_TYPES_0)
          => last.price = None

\* the USD text of the first price dimension of the first on-demand term of
\* the first product, when the response holds every step of the way to it
FullExtraction(remote) ==
    /\ remote.kind = "response"
    /\ "PriceList" \in DOMAIN remote.response
    /\ Len(remote.response.PriceList) > 0
    /\ remote.response.PriceList[1].valid
    /\ "terms" \in DOMAIN remote.response.PriceList[1].value
    /\ "OnDemand" \in DOMAIN remote.response.PriceList[1].value.terms
    /\ Len(remote.response.PriceList[1].value.terms.OnDemand) > 0
    /\ "priceDimensions" \in
           DOMAIN remote.response.PriceList[1].value.terms.OnDemand[1]
    /\ Len(remote.response.PriceList[1].value.terms.OnDemand[1].priceDimensions)
           > 0
    /\ "pricePerUnit" \in DOMAIN
           remote.response.PriceList[1].value.terms.OnDemand[1].priceDimensions[1]
    /\ "USD" \in DOMAIN
           remote.response.PriceList[1].value.terms.OnDemand[1]
                 .priceDimensions[1].pricePerUnit

FirstUsd(remote) ==
    remote.response.PriceList[1].value.terms.OnDemand[1]
          .priceDimensions[1].pricePerUnit.USD

\* C5: an AWS call without the spot flag returns a number only when the
\* whole extraction succeeds and the USD text is a number, and then that
\* number; every failure on the way (the client or the request raising, no
\* or an empty price list, unparseable JSON, a missing term, dimension or
\* USD price, a USD text that is no number) returns None.
C5_FailureIsUnavailable ==
    AwsRemoteCall =>
        IF FullExtraction(last.remote) /\ float(FirstUsd(last.remote)).ok
        THEN last.price = float(FirstUsd(last.remote))
        ELSE last.price = None

C5_Witness ==
    /\ AwsRemoteCall
    /\ last.remote.kind = "response"
    /\ FullExtraction(last.remote)
    /\ FirstUsd(last.remote) = PText
    /\ last.price = None

\* a call is answered from its own arguments and its own service outcome:
\* on the remote path by what its own response holds, on the other paths as
\* the call before it with the same arguments was
OwnOutcome ==
    IF AwsRemoteCall
    THEN last.price = IF FullExtraction(last.remote)
                      THEN float(FirstUsd(last.remote)) ELSE None
    ELSE prev.repeat => last.price = prev.price

\* C9 as stated: every AWS call without the spot flag issues exactly one
\* remote request and every other call none; what a call returns is decided
\* by its own arguments and its own service outcome, never by an earlier
\* call; the price tables stay as loaded.
C9_ExactlyOneRequest ==
    last.called =>
        /\ last.requests = IF AwsRemoteCall THEN 1 ELSE 0
        /\ OwnOutcome
        /\ AWS_INSTANCE_TYPES = AWS_INSTANCE_TYPES_0
        /\ GCP_INSTANCE_TYPES = GCP_INSTANCE_TYPES_0

\* C9 as amended: an AWS call without the spot flag issues exactly one
\* remote request once the pricing client is constructed and none when
\* constructing the client raises, never more than one; every other call
\* issues none; what a call returns is decided by its own arguments and its
\* own service outcome, never by an earlier call; the price tables stay as
\* loaded.
C9_AtMostOneRequest ==
    last.called =>
        /\ last.requests = IF AwsRemoteCall /\ last.remote.kind # "client_raises"
                           THEN 1 ELSE 0
        /\ OwnOutcome
        /\ AWS_INSTANCE_TYPES = AWS_INSTANCE_TYPES_0
        /\ GCP_INSTANCE_TYPES = GCP_INSTANCE_TYPES_0

\* the same query twice: the first failed after one request, the second
\* succeeded after one request of its own
C9_Witness ==
    /\ AwsRemoteCall
    /\ prev.repeat
    /\ prev.price = None
    /\ last.price = Float(1920)
    /\ last.requests = 1

-----------------------------------------------------------------------------
(* Callers of the calculator: the calculation of line 114 followed by the  *)
(* projection of line 131, on arguments within the bounds of the widgets   *)
(* (lines 105-109) and of the price and rate tables.                       *)

MaxNodes == 3

MaxRuns == 2

MaxDays == 2

PriceChoices == {0, 416, 1344, 1920}

RuntimeChoices == {1, 25}

DbuPerHourChoices == {10, 275}

RateChoices == {0, 22, 55}

ArgChoices ==
    [instance_price |-> PriceChoices, num_nodes |-> 1..MaxNodes,
     runtime_hours |-> RuntimeChoices, dbu_per_hour |-> DbuPerHourChoices,
     dbu_cost_per_dbu |-> RateChoices, runs_per_day |-> 1..MaxRuns,
     days_per_month |-> 1..MaxDays]

\* the calculator is called again with one argument changed
Recalculate ==
    \E field \in DOMAIN ArgChoices :
      \E value \in ArgChoices[field] \ {inputs[field]} :
        LET a == [inputs EXCEPT ![field] = value]
        IN
        \E t \in calculate_databricks_cost(a.instance_price, a.num_nodes,
                     a.runtime_hours, a.dbu_per_hour, a.dbu_cost_per_dbu,
                     a.runs_per_day, a.days_per_month) :
        LET p == plot_monthly_costs(t)
        IN  /\ inputs' = a
            /\ total_cost' = t
            /\ months' = p.months
            /\ costs' = p.costs
            /\ before' = [called |-> TRUE, inputs |-> inputs,
                          total_cost |-> total_cost]
            /\ UNCHANGED <<AWS_INSTANCE_TYPES, GCP_INSTANCE_TYPES, last, prev,
                           ui, out, gcp_call>>

CalcNext == Recalculate

CalcSpec == Loaded /\ [][CalcNext]_vars

-----------------------------------------------------------------------------
(* Properties of the calculator and the projection, under CalcSpec *)

InstanceCost(a) == a.instance_price * a.num_nodes * a.runtime_hours
                   * a.runs_per_day * a.days_per_month

UsageCost(a) == a.dbu_per_hour * a.num_nodes * a.dbu_cost_per_dbu
                * a.runtime_hours * a.runs_per_day * a.days_per_month

Scenario == [instance_price |-> 1920, num_nodes |-> 3, runtime_hours |-> 25,
             dbu_per_hour |-> 275, dbu_cost_per_dbu |-> 55, runs_per_day |-> 1,
             days_per_month |-> 1]

\* C6: the calculator returns the sum instanceCost + usageCost rounded to
\* cents, a cent value nearest to the exact sum: rounding is applied to the
\* sum, not to each term; the inputs 0.192, 3, 2.5, 2.75, 0.55, 1, 1 give
\* 12.78 from 1.44 + 11.34375.
C6_RoundOnce ==
    before.called =>
        /\ 1000 * total_cost - (InstanceCost(inputs) + UsageCost(inputs))
              \in -500..500
        /\ inputs = Scenario =>
              /\ InstanceCost(inputs) = 144000
              /\ UsageCost(inputs) = 1134375
              /\ total_cost = 1278

\* a total that no rounding of the two terms one by one adds up to
C6_Witness ==
    /\ before.called
    /\ total_cost > 0
    /\ \A a \in round(InstanceCost(inputs), 1000),
          b \in round(UsageCost(inputs), 1000) : a + b # total_cost

C6_ScenarioReached == inputs = Scenario /\ total_cost = 1278

\* C7: with the inputs within their bounds, a call that differs from the
\* call before it in one input returns no less when that input rose and no
\* more when it fell.
C7_Monotone ==
    before.called =>
        \A f \in DOMAIN inputs :
            /\ inputs[f] > before.inputs[f] => total_cost >= before.total_cost
            /\ inputs[f] < before.inputs[f] => total_cost <= before.total_cost

C7_Witness ==
    /\ before.called
    /\ inputs.num_nodes = 3
    /\ before.inputs.num_nodes = 2
    /\ total_cost > before.total_cost

\* C8: the projection of a monthly total T is 12 points, the months 1..12
\* in increasing order, the cost at month m being T * m, so m times the
\* cost at month 1.
C8_Projection ==
    before.called =>
        /\ Len(months) = 12
        /\ Len(costs) = 12
        /\ \A m \in 1..12 :
              /\ months[m] = m
              /\ costs[m] = total_cost * months[m]
              /\ costs[m] = months[m] * costs[1]

C8_Witness ==
    /\ before.called
    /\ total_cost = 1278
    /\ Len(costs) = 12
    /\ costs[12] = 15336

-----------------------------------------------------------------------------
(* The estimate flow, main(), lines 88-133.  Streamlit runs main() anew on *)
(* every interaction: a changed widget gives a run in which the button is  *)
(* not pressed, so lines 112-133 render nothing; pressing the button gives *)
(* a run of lines 112-133 on the current widget values.                    *)

Range(seq) == {seq[i] : i \in 1..Len(seq)}

\* the options of the selectboxes of lines 94-99
InstanceOptions(cloud_provider) ==
    IF cloud_provider = "AWS" THEN AWS_INSTANCE_KEYS ELSE GCP_INSTANCE_KEYS

RegionOptions(cloud_provider) ==
    IF cloud_provider = "AWS" THEN AWS_REGIONS ELSE GCP_REGIONS

\* values entered in the number inputs of lines 105-109, within their minima
NumberChoices ==
    [num_nodes |-> {1, 3}, runtime_hours |-> {1, 25}, dbu_per_hour |-> {275},
     runs_per_day |-> {1, 2}, days_per_month |-> {1}]

\* a run of main() without the button pressed
Rerun(u) ==
    /\ ui' = u
    /\ out' = NoRun
    /\ UNCHANGED <<AWS_INSTANCE_TYPES, GCP_INSTANCE_TYPES, last, prev, gcp_call,
                   inputs, total_cost, before, months, costs>>

\* lines 91-99: the instance and region selectboxes are rebuilt from the
\* provider's options and the spot checkbox exists for AWS only
SelectCloudProvider ==
    \E cloud_provider \in {"AWS", "GCP"} \ {ui.cloud_provider} :
        Rerun([ui EXCEPT !.cloud_provider = cloud_provider,
                         !.instance_type = InstanceOptions(cloud_provider)[1],
                         !.region = RegionOptions(cloud_provider)[1],
                         !.spot = FALSE])

SelectInstanceType ==
    \E instance_type \in Range(InstanceOptions(ui.cloud_provider))
                           \ {ui.instance_type} :
        Rerun([ui EXCEPT !.instance_type = instance_type])

SelectRegion ==
    \E region \in Range(RegionOptions(ui.cloud_provider)) \ {ui.region} :
        Rerun([ui EXCEPT !.region = region])

CheckSpot ==
    /\ ui.cloud_provider = "AWS"
    /\ Rerun([ui EXCEPT !.spot = ~ui.spot])

SelectPlan ==
    \E plan \in Range(PLANS) \ {ui.plan} :
        Rerun([ui EXCEPT !.plan = plan])

SelectComputeType ==
    \E compute_type \in DOMAIN DBU_PRICING_BY_PLAN[ui.plan] \ {ui.compute_type} :
        Rerun([ui EXCEPT !.compute_type = compute_type])

EnterNumber ==
    \E field \in DOMAIN NumberChoices :
      \E value \in NumberChoices[field] \ {ui[field]} :
        Rerun([ui EXCEPT ![field] = value])

\* lines 111-133 with the button pressed
ClickEstimate ==
    \E remote \in RemotesFor(ui.cloud_provider, ui.spot) :
      \E r \in fetch_instance_price(ui.cloud_provider, ui.instance_type,
                                    ui.region, ui.spot, remote) :
        LET dbu_cost == DBU_PRICING_BY_PLAN[ui.plan][ui.compute_type]
            args == [instance_price |-> r.price.v, num_nodes |-> ui.num_nodes,
                     runtime_hours |-> ui.runtime_hours,
                     dbu_per_hour |-> ui.dbu_per_hour,
                     dbu_cost_per_dbu |-> dbu_cost,
                     runs_per_day |-> ui.runs_per_day,
                     days_per_month |-> ui.days_per_month]
        IN  /\ IF truthy(r.price)
               THEN \E total \in calculate_databricks_cost(r.price.v,
                                     ui.num_nodes, ui.runtime_hours,
                                     ui.dbu_per_hour, dbu_cost,
                                     ui.runs_per_day, ui.days_per_month) :
                      out' = [clicked |-> TRUE, instance_price |-> r.price,
                              requests |-> r.requests,
                              calc_calls |-> <<args>>,
                              success |-> <<total>>,
                              breakdown |-> <<[Cloud |-> ui.cloud_provider,
                                  Plan |-> ui.plan,
                                  ComputeType |-> ui.compute_type,
                                  SpotInstance |-> IF ui.spot THEN "Yes" ELSE "No",
                                  DBURate |-> dbu_cost,
                                  InstanceCostPerHr |-> r.price.v,
                                  MonthlyJobRuns |-> ui.runs_per_day
                                                     * ui.days_per_month,
                                  TotalMonthlyCost |-> total]>>,
                              months |-> plot_monthly_costs(total).months,
                              costs |-> plot_monthly_costs(total).costs,
                              error |-> <<>>]
               ELSE out' = [clicked |-> TRUE, instance_price |-> r.price,
                            requests |-> r.requests, calc_calls |-> <<>>,
                            success |-> <<>>, breakdown |-> <<>>,
                            months |-> <<>>, costs |-> <<>>,
                            error |-> <<"Could not fetch instance pricing.">>]
            /\ UNCHANGED <<AWS_INSTANCE_TYPES, GCP_INSTANCE_TYPES, last, prev,
                           ui, gcp_call, inputs, total_cost, before, months,
                           costs>>

\* a caller invokes get_gcp_instance_price(instance_type)
CallGetGcpInstancePrice ==
    \E instance_type \in InstanceIds :
        /\ gcp_call' = [called |-> TRUE, instance_type |-> instance_type,
                        price |-> get_gcp_instance_price(instance_type)]
        /\ UNCHANGED <<AWS_INSTANCE_TYPES, GCP_INSTANCE_TYPES, last, prev, ui,
                       out, inputs, total_cost, before, months, costs>>

FlowNext ==
    \/ SelectCloudProvider
    \/ SelectInstanceType
    \/ SelectRegion
    \/ CheckSpot
    \/ SelectPlan
    \/ SelectComputeType
    \/ EnterNumber
    \/ ClickEstimate
    \/ CallGetGcpInstancePrice

FlowSpec == Loaded /\ [][FlowNext]_vars

-----------------------------------------------------------------------------
(* Properties of the estimate flow, under FlowSpec *)

Produced == out.breakdown # <<>>

\* C4: get_gcp_instance_price returns None for an instance type that is not
\* in the GCP table, and a run of the estimate flow whose resolved price is
\* None calls the calculator not once, produces no breakdown and no
\* projection, and reports the pricing error.
C4_GcpUnknownNoEstimate ==
    /\ (gcp_call.called /\ gcp_call.instance_type \notin DOMAIN GCP_INSTANCE_TYPES_0)
          => gcp_call.price = None
    /\ (out.clicked /\ out.instance_price = None) =>
          /\ out.calc_calls = <<>>
          /\ out.success = <<>>
          /\ out.breakdown = <<>>
          /\ out.months = <<>>
          /\ out.costs = <<>>
          /\ out.error = <<"Could not fetch instance pricing.">>

C4_Witness ==
    /\ gcp_call.called
    /\ gcp_call.instance_type = "c5.unknown"
    /\ gcp_call.price = None
    /\ out.clicked
    /\ out.instance_price = None
    /\ out.error # <<>>

\* C10: a run of the estimate flow produces a breakdown, with its 12-point
\* projection, exactly when the resolved price is neither None nor zero; it
\* then has called the calculator once, with that price; a resolved price of
\* zero is reported as a pricing failure like None.
C10_BreakdownIffNonZeroPrice ==
    out.clicked =>
        /\ Produced <=> (out.instance_price.ok /\ out.instance_price.v # 0)
        /\ Produced =>
              /\ Len(out.calc_calls) = 1
              /\ out.calc_calls[1].instance_price = out.instance_price.v
              /\ out.breakdown[1].InstanceCostPerHr = out.instance_price.v
              /\ out.breakdown[1].TotalMonthlyCost = out.success[1]
              /\ Len(out.months) = 12
              /\ Len(out.costs) = 12
              /\ out.error = <<>>
        /\ ~Produced =>
              /\ out.calc_calls = <<>>
              /\ out.months = <<>>
              /\ out.costs = <<>>
              /\ out.error = <<"Could not fetch instance pricing.">>

C10_Witness ==
    /\ out.clicked
    /\ out.instance_price = Float(0)
    /\ out.requests = 1
    /\ ~Produced
    /\ out.error # <<>>

====
